---- MODULE Spec2Model ----
(***************************************************************************)
(* Akathon registration portal (src/app.py): one table `students`, the     *)
(* /register handler (validation, capacity check, uniqueness check,        *)
(* insert) and the key-gated admin handlers (/admin, /delete/<id>,         *)
(* /export, /download-db).                                                  *)
(*                                                                         *)
(* Strings that the code parses (form fields) are sequences of one-        *)
(* character strings, so that strip(), the two regular expressions and     *)
(* the text-to-integer conversion of the cohort column are computed.       *)
(* Each request is served by a worker; /register is split at its three     *)
(* database statements (count read, existence read, insert+commit), which  *)
(* are the points where requests of other workers can interleave.          *)
(* Spec is the threaded server: every request has a thread of its own and  *)
(* the threads interleave.  SeqSpec is the server with a single worker,    *)
(* which takes the next request when it has answered the one before.       *)
(***************************************************************************)
EXTENDS Integers, Sequences, FiniteSets, TLC

(* ------------------------------ bounds -------------------------------- *)

\* number of requests that are served concurrently, each by a thread of
\* its own
NumWorkers == 2

\* number of rows that may be created after start-up
MaxCreated == 2

(* ------------------------------ config -------------------------------- *)

MAX_PER_COHORT == 30

ADMIN_KEY == "AKATHON_ADMIN_080828"

(* ------------------------------ strings ------------------------------- *)

\* characters str.strip() removes (the ones the inputs below use)
Whitespace == {" ", "\t", "\n"}

AsciiDigits == {"0", "1", "2", "3", "4", "5", "6", "7", "8", "9"}

\* \d of a str pattern also matches the other Unicode decimal digits;
\* "U+0663" stands for ARABIC-INDIC DIGIT THREE
UnicodeDigits == {"U+0663"}

IsDigit(ch) == ch \in AsciiDigits \cup UnicodeDigits

DigitChars == <<"0", "1", "2", "3", "4", "5", "6", "7", "8", "9">>

RECURSIVE LStrip(_)
LStrip(s) ==
    IF s # <<>> /\ Head(s) \in Whitespace THEN LStrip(Tail(s)) ELSE s

RECURSIVE RStrip(_)
RStrip(s) ==
    IF s # <<>> /\ s[Len(s)] \in Whitespace
    THEN RStrip(SubSeq(s, 1, Len(s) - 1))
    ELSE s

\* str.strip()
Strip(s) == RStrip(LStrip(s))

\* s starts at position i with the literal lit
HasAt(s, i, lit) ==
    /\ Len(s) >= i + Len(lit) - 1
    /\ SubSeq(s, i, i + Len(lit) - 1) = lit

Y2024 == <<"2", "0", "2", "4">>
Y2025 == <<"2", "0", "2", "5">>

\* (2024|2025)
YearAlt == {Y2024, Y2025}

PLASU_ == <<"P", "L", "A", "S", "U", "/">>
FNAS_ == <<"/", "F", "N", "A", "S", "/">>
AKTH_ == <<"A", "K", "T", "H", "/">>
CCC_ == <<"/", "C", "C", "C", "/">>

\* re.match of ^ pre (2024|2025) mid (\d{4}) $ : the pattern is anchored at
\* the start, and $ matches at the end or before one trailing newline
ReMatch(pre, mid, s) ==
    LET y == Len(pre) + 1
        m == y + 4
        d == m + Len(mid)
        e == d + 3
    IN  /\ HasAt(s, 1, pre)
        /\ Len(s) >= y + 3
        /\ SubSeq(s, y, y + 3) \in YearAlt
        /\ HasAt(s, m, mid)
        /\ Len(s) >= e
        /\ \A i \in d..e : IsDigit(s[i])
        /\ \/ Len(s) = e
           \/ Len(s) = e + 1 /\ s[e + 1] = "\n"

\* group(1) and group(2) of a match
ReYear(pre, s) == SubSeq(s, Len(pre) + 1, Len(pre) + 4)
ReMat(pre, mid, s) ==
    SubSeq(s, Len(pre) + 4 + Len(mid) + 1, Len(pre) + 4 + Len(mid) + 4)

USERNAME_RE(s) == ReMatch(PLASU_, FNAS_, s)
PASSWORD_RE(s) == ReMatch(AKTH_, CCC_, s)

\* value of a decimal text, as the INTEGER column affinity converts it
RECURSIVE ToInt(_)
ToInt(s) ==
    IF s = <<>> THEN 0
    ELSE LET ch == s[Len(s)]
             v == CHOOSE n \in 0..9 : DigitChars[n + 1] = ch
         IN  10 * ToInt(SubSeq(s, 1, Len(s) - 1)) + v

(* ------------------------------- store -------------------------------- *)

generate_password_hash(password, salt) == <<"pbkdf2", salt, password>>

\* what one insert draws from its environment: the salt of the hash and the
\* reading of datetime.utcnow()
Draws == {<<"saltA", 1>>, <<"saltB", 2>>}

\* the count without its WHERE clause
SelectCountAll(store, cohort) == Cardinality(store)

\* SELECT COUNT(*) FROM students WHERE cohort = ? (the text parameter is
\* compared numerically against the INTEGER column)
SelectCount(store, cohort) ==
    Cardinality({r \in store : r.cohort = ToInt(cohort)})

\* the capacity check off by one
CohortFullAbove(count) == count > MAX_PER_COHORT

\* if count >= MAX_PER_COHORT (line 92)
CohortFull(count) == count >= MAX_PER_COHORT

\* the existence read on the wrong column
SelectByMat(store, username) == {r \in store : r.mat = username}

\* SELECT id FROM students WHERE username = ?
SelectByUsername(store, username) == {r \in store : r.username = username}

\* the column declared without UNIQUE
NoUniqueConstraint(store, username) == FALSE

\* username TEXT UNIQUE: the insert of a username that is present fails
UniqueViolation(store, username) == \E r \in store : r.username = username

SetMax(S) == IF S = {} THEN 0 ELSE CHOOSE m \in S : \A x \in S : x <= m

\* the key declared without AUTOINCREMENT: one more than the largest id in
\* the table now
NextIdOfTable(store, sq) == SetMax({r.id : r \in store}) + 1

\* id INTEGER PRIMARY KEY AUTOINCREMENT: one more than the largest id the
\* table ever held, which sqlite_sequence (sq) remembers across deletes
NextId(store, sq) == SetMax({r.id : r \in store} \cup {sq}) + 1

\* INSERT INTO students (username, password_hash, cohort, mat, created_at)
NewRow(store, sq, username, password_hash, cohort, mat, created_at) ==
    [id |-> NextId(store, sq), username |-> username,
     password_hash |-> password_hash, cohort |-> ToInt(cohort),
     mat |-> mat, created_at |-> created_at]

\* the delete with <= for =
DeleteRowUpTo(store, student_id) == {r \in store : r.id > student_id}

\* DELETE FROM students WHERE id = ?
DeleteRow(store, student_id) == {r \in store : r.id # student_id}

(* ------------------------------ requests ------------------------------ *)

\* a request parameter is absent (<<>>) or present with a value (<<v>>)
Get(params, name, default) ==
    IF params[name] = <<>> THEN default ELSE params[name][1]

NoParams == [username |-> <<>>, password |-> <<>>, cohort |-> <<>>, key |-> <<>>]

NoReq == [ep |-> "", params |-> NoParams, student_id |-> 0]

\* flash(message, category); a formatted message keeps its arguments
Flash(text, args, category) == [text |-> text, args |-> args, category |-> category]

NoFlash == Flash("", <<>>, "")

FLASH_MISSING == Flash("Please fill all fields and choose a cohort.", <<>>, "danger")
FLASH_USERNAME ==
    Flash("Username must be in the format PLASU/YEAR/FNAS/MAT (MAT = 4 digits).",
          <<>>, "danger")
FLASH_PASSWORD ==
    Flash("Password must be in the format AKTH/YEAR/CCC/MAT (MAT = 4 digits).",
          <<>>, "danger")
FLASH_YEAR ==
    Flash("YEAR in username/password must match the chosen cohort.", <<>>, "danger")
FLASH_MAT ==
    Flash("MAT in username and password must be the same 4-digit number.",
          <<>>, "danger")
FLASH_FULL(cohort) ==
    Flash("Registration for cohort {cohort} is full ({MAX_PER_COHORT} students).",
          <<cohort, MAX_PER_COHORT>>, "danger")
FLASH_DUPLICATE == Flash("Username already registered.", <<>>, "danger")
FLASH_SUCCESS ==
    Flash("Registration successful -- welcome to Akathon!", <<>>, "success")
FLASH_DELETED(student_id) ==
    Flash("Student {student_id} deleted successfully.", <<student_id>>, "success")

\* redirect(url_for(...)), abort(403), a rendered page or file, and the
\* 500 answer to an exception that leaves the handler
Redirect(location, flashed) ==
    [status |-> 302, location |-> location, flash |-> flashed, body |-> ""]
Forbidden == [status |-> 403, location |-> <<>>, flash |-> NoFlash, body |-> ""]
Page(body) == [status |-> 200, location |-> <<>>, flash |-> NoFlash, body |-> body]
ServerError(exc) == [status |-> 500, location |-> <<>>, flash |-> NoFlash, body |-> exc]
NoResp == [status |-> 0, location |-> <<>>, flash |-> NoFlash, body |-> ""]

INDEX == <<"index">>
ADMIN(key) == <<"admin", key>>

\* the key check without the comparison
check_admin_key_nonempty(key) == key # ""

\* check_admin_key: the key is non-empty and equals the configured key
check_admin_key(key) == key # "" /\ key = ADMIN_KEY

\* the three form fields as register() reads them (lines 62-64)
Username(params) == Strip(Get(params, "username", <<>>))
Password(params) == Strip(Get(params, "password", <<>>))
Cohort(params) == Strip(Get(params, "cohort", <<>>))

\* the validation with the password format checked before the username's
ValidatePasswordFirst(params) ==
    LET username == Username(params)
        password == Password(params)
        cohort == Cohort(params)
    IN  IF username = <<>> \/ password = <<>> \/ cohort \notin {Y2024, Y2025}
        THEN FLASH_MISSING
        ELSE IF ~PASSWORD_RE(password) THEN FLASH_PASSWORD
        ELSE IF ~USERNAME_RE(username) THEN FLASH_USERNAME
        ELSE IF \/ ReYear(PLASU_, username) # cohort
                \/ ReYear(AKTH_, password) # cohort
        THEN FLASH_YEAR
        ELSE IF ReMat(PLASU_, FNAS_, username) # ReMat(AKTH_, CCC_, password)
        THEN FLASH_MAT
        ELSE NoFlash

\* the validation part of register() (lines 66-88): the flash of the first
\* failing check, or NoFlash when the form passes all of them
Validate(params) ==
    LET username == Username(params)
        password == Password(params)
        cohort == Cohort(params)
    IN  IF username = <<>> \/ password = <<>> \/ cohort \notin {Y2024, Y2025}
        THEN FLASH_MISSING
        ELSE IF ~USERNAME_RE(username) THEN FLASH_USERNAME
        ELSE IF ~PASSWORD_RE(password) THEN FLASH_PASSWORD
        ELSE IF \/ ReYear(PLASU_, username) # cohort
                \/ ReYear(AKTH_, password) # cohort
        THEN FLASH_YEAR
        ELSE IF ReMat(PLASU_, FNAS_, username) # ReMat(AKTH_, CCC_, password)
        THEN FLASH_MAT
        ELSE NoFlash

(* ------------------------------- inputs ------------------------------- *)

M0007 == <<"0", "0", "0", "7">>
M0008 == <<"0", "0", "0", "8">>
\* a mat written with a non-ASCII decimal digit
M0U07 == <<"0", "U+0663", "0", "7">>

UserName(year, mat) == PLASU_ \o year \o FNAS_ \o mat
PassWord(year, mat) == AKTH_ \o year \o CCC_ \o mat

Y2023 == <<"2", "0", "2", "3">>

\* values of the username field: absent, blank, well-formed, padded with
\* whitespace, and malformed (year out of range, three-digit mat)
UsernameInputs ==
    {<<>>, << <<" ", " ">> >>,
     <<UserName(Y2024, M0007)>>, <<UserName(Y2024, M0008)>>,
     <<UserName(Y2025, M0007)>>, <<UserName(Y2025, M0U07)>>,
     << <<" ">> \o UserName(Y2024, M0007) \o <<"\n">> >>,
     <<UserName(Y2023, M0007)>>,
     <<PLASU_ \o Y2024 \o FNAS_ \o <<"0", "0", "7">> >>}

PasswordInputs ==
    {<<>>, << <<"\t">> >>,
     <<PassWord(Y2024, M0007)>>, <<PassWord(Y2024, M0008)>>,
     <<PassWord(Y2025, M0007)>>, <<PassWord(Y2025, M0U07)>>,
     <<PassWord(Y2024, M0007) \o <<" ">> >>,
     <<UserName(Y2024, M0007)>>}

CohortInputs ==
    {<<>>, <<Y2024>>, <<Y2025>>, <<Y2023>>, << <<" ">> \o Y2024 \o <<" ">> >>}

RegisterForm(u, p, c) ==
    [username |-> u, password |-> p, cohort |-> c, key |-> <<>>]

AllForms ==
    {RegisterForm(u, p, c) :
        u \in UsernameInputs, p \in PasswordInputs, c \in CohortInputs}

\* the forms of requests that run concurrently: well-formed ones of one
\* cohort (one of them padded with whitespace), and one that fails
\* validation
RacingForms ==
    {RegisterForm(<<UserName(Y2024, m)>>, <<PassWord(Y2024, m)>>, <<Y2024>>) :
        m \in {M0007, M0008}}
    \cup {RegisterForm(<< <<" ">> \o UserName(Y2024, M0007) \o <<"\n">> >>,
                       <<PassWord(Y2024, M0007)>>, <<Y2024>>),
          RegisterForm(<<UserName(Y2024, M0007)>>, <<PassWord(Y2024, M0008)>>,
                       <<Y2024>>)}

\* values of the key query parameter: absent, empty, wrong, right
KeyInputs == {<<>>, <<"">>, <<"letmein">>, <<ADMIN_KEY>>}

KeyArgs(k) == [username |-> <<>>, password |-> <<>>, cohort |-> <<>>, key |-> k]

(* -------------------------------- state ------------------------------- *)

Workers == 1..NumWorkers

VARIABLES
    students,   \* the rows of table students
    seq,        \* sqlite_sequence.seq of table students
    issued,     \* history: every id a row was ever created with
    created,    \* history: number of rows created since start-up
    pc,         \* per worker: where its handler stands
    req,        \* per worker: the request it serves
    resp,       \* per worker: the response of the finished handler
    pre         \* history, per worker: the rows when its request arrived

vars == <<students, seq, issued, created, pc, req, resp, pre>>

\* the mat of the i-th earlier registrant, 1000 + i
EarlierMat(i) ==
    <<"1", "0", DigitChars[(i \div 10) + 1], DigitChars[(i % 10) + 1]>>

\* the table after k earlier registrations for cohort 2024, each made
\* through the insert of register()
RECURSIVE Registered(_)
Registered(k) ==
    IF k = 0 THEN {}
    ELSE LET store == Registered(k - 1)
             password == PassWord(Y2024, EarlierMat(k))
         IN  store \cup
             {NewRow(store, k - 1, UserName(Y2024, EarlierMat(k)),
                     generate_password_hash(password, "saltA"),
                     Y2024, EarlierMat(k), 1)}

\* the database file outlives the process: init_db creates the table if it
\* is absent and otherwise keeps the rows of earlier runs
EarlierCounts == {0, MAX_PER_COHORT - 1}

Init ==
    /\ \E k \in EarlierCounts :
          /\ students = Registered(k)
          /\ seq = k
          /\ issued = 1..k
    /\ created = 0
    /\ pc = [w \in Workers |-> "idle"]
    /\ req = [w \in Workers |-> NoReq]
    /\ resp = [w \in Workers |-> NoResp]
    /\ pre = [w \in Workers |-> {}]

InRegister(w) == pc[w] \in {"count", "exists", "insert"}

Begin(w, r) ==
    /\ pc[w] = "idle"
    /\ req' = [req EXCEPT ![w] = r]
    /\ pre' = [pre EXCEPT ![w] = students]

Finish(w, response) ==
    /\ pc' = [pc EXCEPT ![w] = "done"]
    /\ resp' = [resp EXCEPT ![w] = response]

(* ------------------------------ /register ----------------------------- *)

\* lines 62-88: read and strip the fields, validate
Register(w, form) ==
    /\ Begin(w, [ep |-> "register", params |-> form, student_id |-> 0])
    /\ created + Cardinality({v \in Workers : InRegister(v)}) < MaxCreated
    /\ IF Validate(form) # NoFlash
       THEN Finish(w, Redirect(INDEX, Validate(form)))
       ELSE /\ pc' = [pc EXCEPT ![w] = "count"]
            /\ UNCHANGED resp
    /\ UNCHANGED <<students, seq, issued, created>>

\* lines 90-95: the count read and the capacity check
RegisterCount(w) ==
    /\ pc[w] = "count"
    /\ LET cohort == Cohort(req[w].params)
           count == SelectCount(students, cohort)
       IN  IF CohortFull(count)
           THEN Finish(w, Redirect(INDEX, FLASH_FULL(cohort)))
           ELSE /\ pc' = [pc EXCEPT ![w] = "exists"]
                /\ UNCHANGED resp
    /\ UNCHANGED <<students, seq, issued, created, req, pre>>

\* lines 97-100: the existence read
RegisterExists(w) ==
    /\ pc[w] = "exists"
    /\ IF SelectByUsername(students, Username(req[w].params)) # {}
       THEN Finish(w, Redirect(INDEX, FLASH_DUPLICATE))
       ELSE /\ pc' = [pc EXCEPT ![w] = "insert"]
            /\ UNCHANGED resp
    /\ UNCHANGED <<students, seq, issued, created, req, pre>>

\* lines 102-112: hash, timestamp, insert and commit.  An insert that the
\* UNIQUE constraint refuses raises sqlite3.IntegrityError, which nothing
\* catches: the row is not stored and the request ends in a 500.
RegisterInsert(w) ==
    /\ pc[w] = "insert"
    /\ LET username == Username(req[w].params)
           password == Password(req[w].params)
           cohort == Cohort(req[w].params)
           u_mat == ReMat(PLASU_, FNAS_, username)
       IN  IF UniqueViolation(students, username)
           THEN /\ Finish(w, ServerError("sqlite3.IntegrityError"))
                /\ UNCHANGED <<students, seq, issued, created>>
           ELSE \E draw \in Draws :
                  LET row == NewRow(students, seq, username,
                                    generate_password_hash(password, draw[1]),
                                    cohort, u_mat, draw[2])
                  IN  /\ students' = students \cup {row}
                      /\ seq' = row.id
                      /\ issued' = issued \cup {row.id}
                      /\ created' = created + 1
                      /\ Finish(w, Redirect(INDEX, FLASH_SUCCESS))
    /\ UNCHANGED <<req, pre>>

(* -------------------------------- admin ------------------------------- *)

\* lines 116-127
Admin(w, k) ==
    /\ Begin(w, [ep |-> "admin", params |-> KeyArgs(k), student_id |-> 0])
    /\ LET key == Get(KeyArgs(k), "key", "")
       IN  IF ~check_admin_key(key)
           THEN Finish(w, Forbidden)
           ELSE Finish(w, Page("admin.html"))
    /\ UNCHANGED <<students, seq, issued, created>>

\* lines 129-139
DeleteStudent(w, student_id, k) ==
    /\ Begin(w, [ep |-> "delete", params |-> KeyArgs(k), student_id |-> student_id])
    /\ LET key == Get(KeyArgs(k), "key", "")
       IN  IF ~check_admin_key(key)
           THEN /\ Finish(w, Forbidden)
                /\ UNCHANGED students
           ELSE /\ students' = DeleteRow(students, student_id)
                /\ Finish(w, Redirect(ADMIN(key), FLASH_DELETED(student_id)))
    /\ UNCHANGED <<seq, issued, created>>

\* lines 141-158
Export(w, k) ==
    /\ Begin(w, [ep |-> "export", params |-> KeyArgs(k), student_id |-> 0])
    /\ LET key == Get(KeyArgs(k), "key", "")
       IN  IF ~check_admin_key(key)
           THEN Finish(w, Forbidden)
           ELSE Finish(w, Page("akathon_students.xlsx"))
    /\ UNCHANGED <<students, seq, issued, created>>

\* lines 160-165
DownloadDb(w, k) ==
    /\ Begin(w, [ep |-> "download_db", params |-> KeyArgs(k), student_id |-> 0])
    /\ LET key == Get(KeyArgs(k), "key", "")
       IN  IF ~check_admin_key(key)
           THEN Finish(w, Forbidden)
           ELSE Finish(w, Page("akathon.db"))
    /\ UNCHANGED <<students, seq, issued, created>>

\* the response is sent and the worker is free for the next request
Return(w) ==
    /\ pc[w] = "done"
    /\ pc' = [pc EXCEPT ![w] = "idle"]
    /\ req' = [req EXCEPT ![w] = NoReq]
    /\ resp' = [resp EXCEPT ![w] = NoResp]
    /\ pre' = [pre EXCEPT ![w] = {}]
    /\ UNCHANGED <<students, seq, issued, created>>

\* the ids admin requests name: the newest id, the one before it and one
\* that no row has yet
DeleteIds == {i \in (seq - 1)..(seq + 1) : i >= 0}

(* --------------------------- specifications --------------------------- *)

\* requests of several workers interleave at their database statements
Next ==
    \/ \E w \in Workers, form \in RacingForms : Register(w, form)
    \/ \E w \in Workers : RegisterCount(w)
    \/ \E w \in Workers : RegisterExists(w)
    \/ \E w \in Workers : RegisterInsert(w)
    \/ \E w \in Workers, i \in DeleteIds : DeleteStudent(w, i, <<ADMIN_KEY>>)

Spec == Init /\ [][Next]_vars

\* a server with one worker: a request arrives only when the one before
\* it is answered
Single == CHOOSE w \in Workers : \A v \in Workers : w <= v

SeqNext ==
    \/ \E form \in AllForms : Register(Single, form)
    \/ RegisterCount(Single)
    \/ RegisterExists(Single)
    \/ RegisterInsert(Single)
    \/ \E k \in KeyInputs : Admin(Single, k)
    \/ \E i \in DeleteIds, k \in KeyInputs : DeleteStudent(Single, i, k)
    \/ \E k \in KeyInputs : Export(Single, k)
    \/ \E k \in KeyInputs : DownloadDb(Single, k)
    \/ Return(Single)

SeqSpec == Init /\ [][SeqNext]_vars

(* ------------------------- terms of the claims ------------------------ *)

CohortNumbers == {2024, 2025}

YearText(c) == IF c = 2024 THEN Y2024 ELSE Y2025

RowsOf(store, c) == {r \in store : r.cohort = c}

Ids(store) == {r.id : r \in store}

\* the single worker has answered a request to endpoint ep
Answered(ep) == pc[Single] = "done" /\ req[Single].ep = ep

\* a field as submitted; an absent field counts as empty
Submitted(params, name) == Get(params, name, <<>>)

FourDigits(m) == Len(m) = 4 /\ \A i \in 1..4 : IsDigit(m[i])

Last4(s) == IF Len(s) >= 4 THEN SubSeq(s, Len(s) - 3, Len(s)) ELSE <<>>

YearAt(s, i) == IF Len(s) >= i + 3 THEN SubSeq(s, i, i + 3) ELSE <<>>

\* s is PLASU/{year}/FNAS/{mat} resp. AKTH/{year}/CCC/{mat}
IsUsernameText(s) ==
    \E y \in YearAlt : FourDigits(Last4(s)) /\ s = UserName(y, Last4(s))
IsPasswordText(s) ==
    \E y \in YearAlt : FourDigits(Last4(s)) /\ s = PassWord(y, Last4(s))

\* the five checks of the validator, each as "this check fails"
Fails(i, u, p, c) ==
    CASE i = 1 -> u = <<>> \/ p = <<>> \/ c \notin {Y2024, Y2025}
      [] i = 2 -> ~IsUsernameText(u)
      [] i = 3 -> ~IsPasswordText(p)
      [] i = 4 -> ~(YearAt(u, 7) = c /\ YearAt(p, 6) = c)
      [] i = 5 -> Last4(u) # Last4(p)

Reasons == <<FLASH_MISSING, FLASH_USERNAME, FLASH_PASSWORD, FLASH_YEAR, FLASH_MAT>>

\* the number of the earliest failing check, 0 when none fails
FirstFailing(u, p, c) ==
    LET failing == {i \in 1..5 : Fails(i, u, p, c)}
    IN  IF failing = {} THEN 0
        ELSE CHOOSE i \in failing : \A j \in failing : i <= j

\* what the claim on the validation order says of an answered /register
\* request whose fields are read as u, p, c
ReportsFirstFailing(u, p, c) ==
    LET k == FirstFailing(u, p, c)
    IN  IF k = 0
        THEN \A i \in 1..5 : resp[Single].flash # Reasons[i]
        ELSE /\ resp[Single] = Redirect(INDEX, Reasons[k])
             /\ students = pre[Single]

\* the form is username PLASU/{y}/FNAS/{m}, password AKTH/{y}/CCC/{m} and
\* cohort y for a year y and a 4-digit m
Canonical(params, y) ==
    LET u == Submitted(params, "username")
    IN  /\ FourDigits(Last4(u))
        /\ params.username = <<UserName(y, Last4(u))>>
        /\ params.password = <<PassWord(y, Last4(u))>>
        /\ params.cohort = <<y>>

\* the request was accepted: success is flashed and exactly one row is new,
\* with the request's username, cohort and mat
Accepted(params, c) ==
    /\ resp[Single] = Redirect(INDEX, FLASH_SUCCESS)
    /\ \E r \in students :
          /\ r \notin pre[Single]
          /\ students = pre[Single] \cup {r}
          /\ r.username = Submitted(params, "username")
          /\ r.cohort = c
          /\ r.mat = Last4(Submitted(params, "username"))

WrongKey(params) == params.key = <<>> \/ params.key[1] = "" \/ params.key[1] # ADMIN_KEY

AdminEndpoints == {"admin", "delete", "export", "download_db"}

(* -------------------------------- claims ------------------------------ *)

\* C1: in every reachable state each cohort of {2024, 2025} has at most
\* MAX_PER_COHORT stored rows, also when /register requests interleave.
CohortCapacity ==
    \A c \in CohortNumbers : Cardinality(RowsOf(students, c)) <= MAX_PER_COHORT

\* C2: in every reachable state no two stored rows have the same username,
\* also when two /register requests with one username both pass the
\* existence check before either inserts.
UsernameUnique ==
    \A r1 \in students, r2 \in students : r1.username = r2.username => r1 = r2

\* C2 witness: two requests with the same username both came past the
\* existence check; one stored its row and the other was refused.
RacedOnUsername ==
    \E w \in Workers, v \in Workers :
        /\ w # v
        /\ pc[w] = "done" /\ pc[v] = "done"
        /\ req[w].ep = "register" /\ req[v].ep = "register"
        /\ Username(req[w].params) = Username(req[v].params)
        /\ resp[w].flash = FLASH_SUCCESS
        /\ resp[v].status = 500

RegisterFlashes ==
    {FLASH_MISSING, FLASH_USERNAME, FLASH_PASSWORD, FLASH_YEAR, FLASH_MAT,
     FLASH_FULL(Y2024), FLASH_FULL(Y2025), FLASH_DUPLICATE, FLASH_SUCCESS}

\* C3: every /register request ends in a redirect with one of the flash
\* messages of register(), never in an unhandled fault, for every
\* interleaving of concurrent /register requests.
RegisterNeverFaults ==
    \A w \in Workers :
        pc[w] = "done" /\ req[w].ep = "register" =>
            /\ resp[w].status = 302
            /\ resp[w].location = INDEX
            /\ resp[w].flash \in RegisterFlashes

\* C4: a well-formed /register request served while its cohort already has
\* MAX_PER_COHORT rows, with no other request in between, is answered with
\* the cohort-full message and leaves the table as it was.
FullCohortRejected ==
    \A c \in CohortNumbers :
        /\ Answered("register")
        /\ Validate(req[Single].params) = NoFlash
        /\ Cohort(req[Single].params) = YearText(c)
        /\ Cardinality(RowsOf(pre[Single], c)) >= MAX_PER_COHORT
        => /\ resp[Single] = Redirect(INDEX, FLASH_FULL(YearText(c)))
           /\ students = pre[Single]

\* C4 witness: a well-formed request met a cohort of exactly MAX_PER_COHORT
\* rows and has been answered.
FullCohortMet ==
    /\ Answered("register")
    /\ Validate(req[Single].params) = NoFlash
    /\ Cohort(req[Single].params) = Y2024
    /\ Cardinality(RowsOf(pre[Single], 2024)) = MAX_PER_COHORT

\* C5: a well-formed /register request whose username is stored already
\* (its cohort not being full), served with no other request in between,
\* is answered with the duplicate-username message and leaves the table as
\* it was: the stored row keeps all its fields and no row is added.
DuplicateRejected ==
    \A c \in CohortNumbers :
        /\ Answered("register")
        /\ Validate(req[Single].params) = NoFlash
        /\ Cohort(req[Single].params) = YearText(c)
        /\ Cardinality(RowsOf(pre[Single], c)) < MAX_PER_COHORT
        /\ \E r \in pre[Single] : r.username = Username(req[Single].params)
        => /\ resp[Single] = Redirect(INDEX, FLASH_DUPLICATE)
           /\ students = pre[Single]

\* C5 witness: a well-formed request for a stored username, in a cohort
\* that is not full, has been answered.
DuplicateMet ==
    /\ Answered("register")
    /\ Validate(req[Single].params) = NoFlash
    /\ \E r \in pre[Single] :
          /\ r.username = Username(req[Single].params)
          /\ Cardinality(RowsOf(pre[Single], r.cohort)) < MAX_PER_COHORT

\* C6 as stated: a request with username PLASU/{year}/FNAS/{mat}, password
\* AKTH/{year}/CCC/{mat} and cohort = year is accepted whenever the table
\* has fewer than MAX_PER_COHORT rows of that cohort.
CanonicalAlwaysAccepted ==
    \A c \in CohortNumbers :
        /\ Answered("register")
        /\ Canonical(req[Single].params, YearText(c))
        /\ Cardinality(RowsOf(pre[Single], c)) < MAX_PER_COHORT
        => Accepted(req[Single].params, c)

\* C6 amended: such a request is accepted whenever the table has fewer than
\* MAX_PER_COHORT rows of that cohort and no row with that username.
CanonicalNewAccepted ==
    \A c \in CohortNumbers :
        /\ Answered("register")
        /\ Canonical(req[Single].params, YearText(c))
        /\ Cardinality(RowsOf(pre[Single], c)) < MAX_PER_COHORT
        /\ \A r \in pre[Single] : r.username # Submitted(req[Single].params, "username")
        => Accepted(req[Single].params, c)

\* C6 witness: a canonical request with a new username was accepted into
\* the last free place of its cohort.
LastPlaceTaken ==
    /\ Answered("register")
    /\ Canonical(req[Single].params, Y2024)
    /\ Cardinality(RowsOf(pre[Single], 2024)) = MAX_PER_COHORT - 1
    /\ Accepted(req[Single].params, 2024)

\* C7 as stated: for every (username, password, cohort) input, the fields
\* taken as submitted, /register reports the reason of the first failing
\* check in the order 1..5, and a rejected request inserts no row.
ValidationOrderAsSubmitted ==
    Answered("register") =>
        ReportsFirstFailing(Submitted(req[Single].params, "username"),
                            Submitted(req[Single].params, "password"),
                            Submitted(req[Single].params, "cohort"))

\* C7 amended: the same, the checks being made on each field with its
\* leading and trailing whitespace removed.
ValidationOrderStripped ==
    Answered("register") =>
        ReportsFirstFailing(Strip(Submitted(req[Single].params, "username")),
                            Strip(Submitted(req[Single].params, "password")),
                            Strip(Submitted(req[Single].params, "cohort")))

\* C7 witness: a request failing several checks at once (bad username
\* format, bad password format, year mismatch, mat mismatch) was answered
\* with the reason of the earliest.
SeveralChecksFail ==
    /\ Answered("register")
    /\ LET u == Strip(Submitted(req[Single].params, "username"))
           p == Strip(Submitted(req[Single].params, "password"))
           c == Strip(Submitted(req[Single].params, "cohort"))
       IN  /\ ~Fails(1, u, p, c)
           /\ \A i \in 2..5 : Fails(i, u, p, c)
    /\ resp[Single].flash = FLASH_USERNAME

\* C8: a request to an admin endpoint whose key is absent, empty or not the
\* configured key is answered 403 and leaves the table as it was; /delete
\* with a wrong key removes no row, whatever the id.
WrongKeyForbidden ==
    \A ep \in AdminEndpoints :
        Answered(ep) /\ WrongKey(req[Single].params) =>
            /\ resp[Single] = Forbidden
            /\ students = pre[Single]

\* C8 witness: /delete of a stored row's id with a wrong, non-empty key has
\* been answered.
WrongKeyDeleteMet ==
    /\ Answered("delete")
    /\ req[Single].params.key = <<"letmein">>
    /\ req[Single].student_id \in Ids(pre[Single])

\* C9: an authorized /delete/<id> removes exactly the row with that id if
\* there is one and changes no other row; without such a row the table is
\* as it was; in both cases the answer is the success flash and the
\* redirect to the admin view with the key.
DeleteExact ==
    Answered("delete") /\ ~WrongKey(req[Single].params) =>
        LET student_id == req[Single].student_id
        IN  /\ students = {r \in pre[Single] : r.id # student_id}
            /\ student_id \notin Ids(pre[Single]) => students = pre[Single]
            /\ resp[Single] = Redirect(ADMIN(ADMIN_KEY), FLASH_DELETED(student_id))

\* C9 witness: an authorized delete removed one row of several.
DeletedOneOfSeveral ==
    /\ Answered("delete")
    /\ ~WrongKey(req[Single].params)
    /\ req[Single].student_id \in Ids(pre[Single])
    /\ students # {}
    /\ students # pre[Single]

\* C10: each newly created row gets an id greater than the id of every row
\* created before it, deleted rows included: ids are never reassigned.
IdsIncrease ==
    [][\A r \in students' : r \notin students => \A i \in issued : r.id > i]_vars

\* C10 witness: a row was created after the row with the newest id had been
\* deleted.
CreatedAfterDelete ==
    /\ Answered("register")
    /\ resp[Single].flash = FLASH_SUCCESS
    /\ seq >= 2
    /\ (seq - 1) \notin Ids(pre[Single])
    /\ seq \in Ids(students)

====
